---- MODULE Spec2Model ----
(***************************************************************************)
(* Model of scripts/transcribeAudio.ts: the segment / transcribe / stitch  *)
(* pipeline of transcribeAudio.                                            *)
(*                                                                         *)
(* Time is an integer number of milliseconds.  The code works in seconds   *)
(* (SEGMENT_DURATION / 1000, "HH:MM:SS.mmm" cue times, JSON seconds); all  *)
(* values it handles here are whole milliseconds, so x seconds in the code *)
(* is 1000 * x in the model.                                               *)
(*                                                                         *)
(* A cue-track document is the list of its lines, as split('\n') yields    *)
(* them; a line is a record with a kind k.  A "ts" line is a line that     *)
(* holds two times with ' --> ' between them: s and e are the times, pre   *)
(* and post the characters before the first and after the second.  A time  *)
(* is the record of its digit groups hh:mm:ss.mmm; a group is written      *)
(* with two digits (mmm: three), with more when its value needs more, and  *)
(* hh = -1 says that the time has no hours group.  Every other line has    *)
(* its characters in t, one string per character: "header" is the line     *)
(* WEBVTT, "blank" the empty line and "text" any other line.  A            *)
(* structured document is the record {text, words, segments}.  A text is   *)
(* a list of pieces, a space being the piece " "; the text taken from a    *)
(* cue track has one piece per character.                                  *)
(*                                                                         *)
(* Also modelled: the timestamp codec of transcribeAudio.ts on its own,    *)
(* and the chapter timestamps of scripts/transcript-chapters.ts, whose     *)
(* times are whole seconds.                                                *)
(***************************************************************************)
EXTENDS Integers, Sequences, FiniteSets, TLC

VARIABLES pc, format, duration, currentTime, segments, transcriptions, output, truth,
          size, files, inflight, calls, written, cause,
          codec, chapters, chaptersWithTimestamps

\* size: bytes of the audio buffer; files: the temporary files that exist;
\* inflight: the segments whose transcription call has not returned; calls:
\* the calls issued so far, each with the bytes and the prompt it sent;
\* written: the output file was written; cause: what made the run fail.
runVars == <<size, inflight, calls, written>>

\* codec: a value given to the timestamp codec and what came back; chapters:
\* the chapters of processTranscriptChapters; chaptersWithTimestamps: the
\* start times found so far, in seconds.
otherVars == <<codec, chapters, chaptersWithTimestamps>>

\* The variables of a run of transcribeAudio.
pipelineVars == <<pc, format, duration, currentTime, segments, transcriptions, output, truth,
                  size, files, inflight, calls, written, cause>>

vars == <<pc, format, duration, currentTime, segments, transcriptions, output, truth,
          size, files, inflight, calls, written, cause,
          codec, chapters, chaptersWithTimestamps>>

\* No codec call and no chapter run is under way.
NoCodec == [op |-> "none", arg |-> 0, mid |-> 0, res |-> 0]
OthersIdle == codec = NoCodec /\ chapters = <<>> /\ chaptersWithTimestamps = <<>>

\* ---------------------------------------------------------------- bounds

\* Probed durations are the multiples of DurStep up to MaxDurSteps * DurStep.
DurStep == 10000
MaxDurSteps == 130
\* A segment result holds at most MaxCues items.
MaxCues == 2
\* Tolerance of the ordering checks, in milliseconds.
Epsilon == 1

\* ------------------------------------------------------ program constants

MAX_FILE_SIZE == 25 * 1024 * 1024
SEGMENT_DURATION == 10 * 60 * 1000
SEGMENT_OVERLAP == 20 * 1000

\* ---------------------------------------------------------------- helpers

Max(a, b) == IF a >= b THEN a ELSE b
Min(a, b) == IF a <= b THEN a ELSE b

RECURSIVE Flatten(_)
Flatten(ss) == IF ss = <<>> THEN <<>> ELSE Head(ss) \o Flatten(Tail(ss))

\* --------------------------------------------------------------- TimeCodec

\* parseVTTTimestamp: hours * 3600 + minutes * 60 + seconds, in milliseconds.
parseVTTTimestamp(timestamp) ==
    timestamp.hh * 3600000 + timestamp.mm * 60000 + timestamp.ss * 1000 + timestamp.mmm

\* Mutant: the minutes are not reduced modulo the hour.
formatVTTTimestamp_NoWrap(ms) ==
    [hh  |-> ms \div 3600000,
     mm  |-> ms \div 60000,
     ss  |-> (ms % 60000) \div 1000,
     mmm |-> (ms % 60000) % 1000]

\* formatVTTTimestamp: floor(s / 3600), floor((s % 3600) / 60), (s % 60).toFixed(3).
formatVTTTimestamp(ms) ==
    [hh  |-> ms \div 3600000,
     mm  |-> (ms % 3600000) \div 60000,
     ss  |-> (ms % 60000) \div 1000,
     mmm |-> (ms % 60000) % 1000]

\* ------------------------------------------------------------------- lines

HeaderLine ==
    [k |-> "header", s |-> 0, e |-> 0, t |-> <<"W", "E", "B", "V", "T", "T">>,
     pre |-> <<>>, post |-> <<>>]
BlankLine == [k |-> "blank", s |-> 0, e |-> 0, t |-> <<>>, pre |-> <<>>, post |-> <<>>]
TsLine(s, e) == [k |-> "ts", s |-> s, e |-> e, t |-> <<>>, pre |-> <<>>, post |-> <<>>]
TextLine(t) == [k |-> "text", s |-> 0, e |-> 0, t |-> t, pre |-> <<>>, post |-> <<>>]

\* The characters String.trim() removes that a string of the model can hold:
\* space, tab, line feed, vertical tab, form feed, carriage return.
Whitespace == {" ", "\t", "\n", "", "\f", "\r"}

RECURSIVE TrimStart(_)
TrimStart(text) ==
    IF text = <<>> THEN <<>>
    ELSE IF Head(text) \in Whitespace THEN TrimStart(Tail(text))
    ELSE text

RECURSIVE TrimEnd(_)
TrimEnd(text) ==
    IF text = <<>> THEN <<>>
    ELSE IF text[Len(text)] \in Whitespace THEN TrimEnd(SubSeq(text, 1, Len(text) - 1))
    ELSE text

\* String.trim() of a text: no white space at either end.
TrimText(text) == TrimEnd(TrimStart(text))

\* The decimal digits of a natural number, one string per digit.
RECURSIVE DigitChars(_)
DigitChars(n) ==
    IF n < 10 THEN <<ToString(n)>> ELSE DigitChars(n \div 10) \o <<ToString(n % 10)>>

\* The characters of a line as one string.
RECURSIVE Spell(_)
Spell(chars) == IF chars = <<>> THEN "" ELSE Head(chars) \o Spell(Tail(chars))

\* ---------------------------------------------------------------- Segmenter

\* Math.max(0, currentTime - SEGMENT_OVERLAP / 1000)
StartTime(cur) == Max(0, cur - SEGMENT_OVERLAP)

\* .setStartTime(startTime).setDuration(SEGMENT_DURATION / 1000)
SegmentOf(cur) == [start |-> StartTime(cur), length |-> SEGMENT_DURATION]

\* The audio the extracted clip holds: extraction stops at the end of the input.
ClipEnd(seg, dur) == Min(seg.start + seg.length, dur)
ClipLen(seg, dur) == Max(0, ClipEnd(seg, dur) - seg.start)

\* join(tempDir, 'input.mp3') and outputPath.replace('%d', segmentIndex)
InputFile == <<"input.mp3", 0>>
SegmentFile(segmentIndex) == <<"segment.mp3", segmentIndex>>

\* ------------------------------------------------- the transcription service

\* The items a clip can be heard to hold, in the clip's local time: at the
\* start, just below the overlap length, exactly at it, and at the clip's end.
Candidates ==
    << [start |-> 0,      end |-> 5000,   text |-> "a"],
       [start |-> 19999,  end |-> 20000,  text |-> "b"],
       [start |-> 20000,  end |-> 25000,  text |-> "c"],
       [start |-> 599000, end |-> 600000, text |-> "d"] >>

RECURSIVE PickFrom(_, _)
PickFrom(S, n) ==
    IF n > Len(Candidates) THEN <<>>
    ELSE (IF n \in S THEN <<Candidates[n]>> ELSE <<>>) \o PickFrom(S, n + 1)

\* The ordered item lists of at most MaxCues items that fit a clip of clipLen ms.
ItemLists(clipLen) ==
    { PickFrom(S, 1) :
        S \in { T \in SUBSET (1 .. Len(Candidates)) :
                  /\ Cardinality(T) <= MaxCues
                  /\ \A n \in T : Candidates[n].end <= clipLen } }

\* response_format 'vtt': "WEBVTT\n\n" and "start --> end\ntext\n\n" per cue,
\* as the list of lines split('\n') gives.
CueBlock(item) ==
    << TsLine(formatVTTTimestamp(item.start), formatVTTTimestamp(item.end)),
       TextLine(<<item.text>>), BlankLine >>

RenderVTT(items) ==
    <<HeaderLine, BlankLine>>
        \o Flatten([n \in 1 .. Len(items) |-> CueBlock(items[n])])
        \o <<BlankLine>>

RECURSIVE JoinText(_)
JoinText(texts) ==
    IF texts = <<>> THEN <<>>
    ELSE IF Len(texts) = 1 THEN Head(texts)
    ELSE Head(texts) \o <<" ">> \o JoinText(Tail(texts))

\* response_format 'verbose_json': TranscriptionResponse {text, words, segments}.
RenderJSON(items) ==
    [text     |-> JoinText([n \in 1 .. Len(items) |-> <<items[n].text>>]),
     words    |-> [n \in 1 .. Len(items) |->
                     [word |-> items[n].text, start |-> items[n].start,
                      end |-> items[n].end]],
     segments |-> [n \in 1 .. Len(items) |->
                     [id |-> n - 1, start |-> items[n].start,
                      end |-> items[n].end, text |-> <<items[n].text>>]]]

\* What transcribeAudioSegment can return for a clip of clipLen ms.
ServiceResults(fmt, clipLen) ==
    IF fmt = "vtt" THEN { RenderVTT(items) : items \in ItemLists(clipLen) }
    ELSE { RenderJSON(items) : items \in ItemLists(clipLen) }

\* ------------------------------------------------ combineVTTTranscriptions

\* line.trim() === ''
IsBlank(line) == line.k # "ts" /\ TrimText(line.t) = <<>>

\* (\d{2}:\d{2}:\d{2}\.\d{3}) as the first time of the pattern: nothing
\* anchors its start, so an hours group of any length ends in two digits; the
\* other groups lie between separators and have their exact lengths.
MatchesStart(ts) ==
    ts.hh >= 0 /\ ts.mm \in 0 .. 99 /\ ts.ss \in 0 .. 99 /\ ts.mmm \in 0 .. 999

\* The same as the second time of the pattern: nothing anchors its end, so a
\* last group of any length begins with three digits.
MatchesEnd(ts) ==
    ts.hh \in 0 .. 99 /\ ts.mm \in 0 .. 99 /\ ts.ss \in 0 .. 99 /\ ts.mmm >= 0

\* /(\d{2}:\d{2}:\d{2}\.\d{3}) --> (\d{2}:\d{2}:\d{2}\.\d{3})/ on one line:
\* the pattern is looked for anywhere in the line.
MatchesTs(line) == line.k = "ts" /\ MatchesStart(line.s) /\ MatchesEnd(line.e)

\* timestampMatch[1]: the first time from the last two digits of its hours;
\* the digits before them stay where they are, before the match.
MatchedStart(ts) == [ts EXCEPT !.hh = ts.hh % 100]
LeadDigits(ts) == IF ts.hh < 100 THEN <<>> ELSE DigitChars(ts.hh \div 100)

\* timestampMatch[2]: the second time up to the third digit of its last
\* group; the digits after them stay where they are, after the match.
RECURSIVE FirstThree(_)
FirstThree(mmm) == IF mmm < 1000 THEN mmm ELSE FirstThree(mmm \div 10)
RECURSIVE RestDigits(_)
RestDigits(mmm) ==
    IF mmm < 1000 THEN <<>> ELSE RestDigits(mmm \div 10) \o <<ToString(mmm % 10)>>
MatchedEnd(ts) == [ts EXCEPT !.mmm = FirstThree(ts.mmm)]

\* currentCue.match(...): the position of the first matching line, 0 for none.
TimestampMatch(currentCue) ==
    LET hits == { n \in 1 .. Len(currentCue) : MatchesTs(currentCue[n]) }
    IN  IF hits = {} THEN 0 ELSE CHOOSE n \in hits : \A m \in hits : n <= m

\* Mutant: no cue is treated as overlap material.
KeepCue_NoDedupe(i, startTime, timeOffset) == TRUE

\* Mutant: a cue exactly at the threshold is dropped.
KeepCue_Strict(i, startTime, timeOffset) ==
    i = 0 \/ startTime > timeOffset + SEGMENT_OVERLAP

\* i === 0 || startTime >= timeOffset + SEGMENT_OVERLAP / 1000
KeepCue(i, startTime, timeOffset) ==
    i = 0 \/ startTime >= timeOffset + SEGMENT_OVERLAP

\* Mutant: the offset advances by the full segment duration.
NextVTTOffset_NoOverlap(timeOffset) == timeOffset + SEGMENT_DURATION

\* timeOffset += SEGMENT_DURATION / 1000 - SEGMENT_OVERLAP / 1000
NextVTTOffset(timeOffset) == timeOffset + (SEGMENT_DURATION - SEGMENT_OVERLAP)

\* String.trim() of some lines, none of them blank: the white space before
\* the first line and after the last one goes.
TrimLeft(line) ==
    IF line.k = "ts" THEN [line EXCEPT !.pre = TrimStart(@)]
    ELSE [line EXCEPT !.t = TrimStart(@)]
TrimRight(line) ==
    IF line.k = "ts" THEN [line EXCEPT !.post = TrimEnd(@)]
    ELSE [line EXCEPT !.t = TrimEnd(@)]
TrimEnds(lines) ==
    IF lines = <<>> THEN <<>>
    ELSE LET left == [lines EXCEPT ![1] = TrimLeft(@)]
         IN  [left EXCEPT ![Len(left)] = TrimRight(@)]

\* currentCue.replace(timestampMatch[0], `${formatVTTTimestamp(startTime)} -->
\* ${formatVTTTimestamp(endTime)}`): the matched part of the line is replaced,
\* what is around it is kept.
ReplaceMatch(line, startTime, endTime) ==
    [line EXCEPT !.pre = @ \o LeadDigits(line.s),
                 !.s = formatVTTTimestamp(startTime),
                 !.e = formatVTTTimestamp(endTime),
                 !.post = RestDigits(line.e.mmm) \o @]

\* The body of 'if (currentCue) { ... }': the cue with its times shifted is
\* appended, followed by a blank line, or nothing is.
FlushCue(i, timeOffset, currentCue, combined) ==
    IF currentCue = <<>> THEN combined
    ELSE LET m == TimestampMatch(currentCue)
         IN  IF m = 0 THEN combined
             ELSE LET startTime ==
                          parseVTTTimestamp(MatchedStart(currentCue[m].s)) + timeOffset
                      endTime ==
                          parseVTTTimestamp(MatchedEnd(currentCue[m].e)) + timeOffset
                  IN  IF KeepCue(i, startTime, timeOffset)
                      THEN combined
                             \o TrimEnds([currentCue EXCEPT ![m] =
                                            ReplaceMatch(@, startTime, endTime)])
                             \o <<BlankLine>>
                      ELSE combined

\* for (const line of lines): a blank line ends the cue being read.
RECURSIVE CueLoop(_, _, _, _, _)
CueLoop(i, timeOffset, lines, currentCue, combined) ==
    IF lines = <<>> THEN combined
    ELSE IF IsBlank(Head(lines))
    THEN CueLoop(i, timeOffset, Tail(lines), <<>>,
                 FlushCue(i, timeOffset, currentCue, combined))
    ELSE CueLoop(i, timeOffset, Tail(lines), Append(currentCue, Head(lines)), combined)

\* String.trim() of the combined text: no blank line and no white space at
\* either end.
RECURSIVE TrimLines(_)
TrimLines(lines) ==
    IF lines = <<>> THEN <<>>
    ELSE IF IsBlank(Head(lines)) THEN TrimLines(Tail(lines))
    ELSE IF IsBlank(lines[Len(lines)]) THEN TrimLines(SubSeq(lines, 1, Len(lines) - 1))
    ELSE TrimEnds(lines)

\* for (let i = 0; i < transcriptions.length; i++), i counted from 0 as in the code;
\* what the cues of a transcription add is appended to what is combined so far.
RECURSIVE VTTLoop(_, _, _, _)
VTTLoop(ts, i, timeOffset, combined) ==
    IF i >= Len(ts) THEN combined
    ELSE LET all == ts[i + 1]
             head == IF i = 0 THEN <<all[1], BlankLine>> ELSE <<>>
             lines == IF i = 0 THEN SubSeq(all, 3, Len(all)) ELSE all
         IN  VTTLoop(ts, i + 1, NextVTTOffset(timeOffset),
                     combined \o head \o CueLoop(i, timeOffset, lines, <<>>, <<>>))

combineVTTTranscriptions(ts) == TrimLines(VTTLoop(ts, 0, 0, <<>>))

\* ----------------------------------------------- combineJSONTranscriptions

\* word.start + timeOffset, word.end + timeOffset (words and segments alike)
ShiftItem(item, timeOffset) ==
    [item EXCEPT !.start = item.start + timeOffset, !.end = item.end + timeOffset]

\* timeOffset = data.segments[data.segments.length - 1].end
NextJSONOffset(data) == data.segments[Len(data.segments)].end

\* combined.text += data.text + ' '
CombineText(text, data) == text \o data.text \o <<" ">>

\* Reading .end of data.segments[-1] throws when a clip has no segment entry.
JSONThrows(ts) == \E n \in 1 .. Len(ts) : ts[n].segments = <<>>

RECURSIVE JSONLoop(_, _, _, _)
JSONLoop(ts, n, timeOffset, combined) ==
    IF n > Len(ts) THEN combined
    ELSE LET data == ts[n]
         IN  JSONLoop(ts, n + 1, NextJSONOffset(data),
                 [text     |-> CombineText(combined.text, data),
                  words    |-> combined.words
                                 \o [k \in 1 .. Len(data.words) |->
                                       ShiftItem(data.words[k], timeOffset)],
                  segments |-> combined.segments
                                 \o [k \in 1 .. Len(data.segments) |->
                                       ShiftItem(data.segments[k], timeOffset)]])

combineJSONTranscriptions(ts) ==
    JSONLoop(ts, 1, 0, [text |-> <<>>, words |-> <<>>, segments |-> <<>>])

\* ------------------------------------------------------------ the pipeline

Durations == { k * DurStep : k \in 1 .. MaxDurSteps }

\* The end of a continuous transcript: the audio is at least that long.
TruthEnd(items) == IF items = <<>> THEN 0 ELSE items[Len(items)].end

NoOutput == <<>>

Init ==
    /\ pc = "probe"
    /\ format \in {"vtt", "json"}
    /\ duration = 0
    /\ currentTime = 0
    /\ segments = <<>>
    /\ transcriptions = <<>>
    /\ output = NoOutput
    /\ size = MAX_FILE_SIZE + 1
    /\ files = {InputFile}
    /\ inflight = {}
    /\ calls = <<>>
    /\ written = FALSE
    /\ cause = "none"
    /\ OthersIdle
    /\ truth = <<>>

\* ffmpeg.ffprobe(inputPath, ...): duration = metadata.format.duration || 0,
\* for a probe that reports one of the durations ds.
ProbeOf(ds) ==
    /\ pc = "probe"
    /\ \E d \in ds : d >= TruthEnd(truth) /\ duration' = d
    /\ pc' = "split"
    /\ UNCHANGED <<format, currentTime, segments, transcriptions, output, truth, files, cause, runVars, otherVars>>

Probe == ProbeOf(Durations)

\* A turn of 'while (currentTime < duration)' up to its await:
\* segments.push(segmentPath), and ffmpeg is started on the clip.
PushSegment ==
    /\ pc = "split"
    /\ currentTime < duration
    /\ segments' = Append(segments, SegmentOf(currentTime))
    /\ pc' = "extract"
    /\ UNCHANGED <<format, duration, currentTime, transcriptions, output, truth, files, cause, runVars, otherVars>>

\* ffmpeg reports 'end': the clip is written, currentTime += SEGMENT_DURATION / 1000.
ExtractSegment ==
    /\ pc = "extract"
    /\ currentTime' = currentTime + SEGMENT_DURATION
    /\ pc' = "split"
    /\ UNCHANGED <<format, duration, segments, transcriptions, output, truth, cause, runVars, otherVars>>
    /\ files' = files \cup {SegmentFile(Len(segments) - 1)}

\* Mutant: resolve(segments) is reached from inside the loop.
LoopOver_Early(cur, dur) == TRUE

\* 'while (currentTime < duration)' is left.
LoopOver(cur, dur) == ~(cur < dur)

\* The loop ends: resolve(segments).
SplitDone ==
    /\ pc = "split"
    /\ LoopOver(currentTime, duration)
    /\ pc' = "transcribe"
    /\ UNCHANGED <<format, duration, currentTime, segments, transcriptions, output, truth, cause, runVars, otherVars>>
    /\ files' = files \ {InputFile}

\* ------------------------------------------------ the loop over segments

\* Bytes per millisecond of an extracted '.mp3' clip: 128 and 320 kbit/s, the
\* encoder's default and the highest bit rate of the format.
Mp3BytesPerMs == {16, 40}

\* Every clip of a run is written by the same ffmpeg command, so at one bit
\* rate: the rates a clip can have, given the calls that sent the clips before it.
ClipRates(sent, segs, dur) ==
    { r \in Mp3BytesPerMs :
        \A k \in 1 .. Len(sent) : sent[k].bytes = ClipLen(segs[sent[k].seg + 1], dur) * r }

\* readFile(segment): the bytes of a clip of clipLen ms at one of the rates.
ClipSizes(clipLen, rates) == { clipLen * r : r \in rates }

\* .slice(-50)
ContextWords == 50

\* The prompt given to transcribeAudio.
BasePrompt == <<"prompt">>

\* String.split(' '): the pieces between the spaces, one piece more than spaces.
RECURSIVE SplitSpace(_)
SplitSpace(text) ==
    LET spaces == { n \in 1 .. Len(text) : text[n] = " " }
    IN  IF spaces = {} THEN <<text>>
        ELSE LET first == CHOOSE p \in spaces : \A q \in spaces : p <= q
             IN  <<SubSeq(text, 1, first - 1)>>
                   \o SplitSpace(SubSeq(text, first + 1, Len(text)))

\* Array.slice(-n)
LastN(seq, n) == IF Len(seq) <= n THEN seq ELSE SubSeq(seq, Len(seq) - n + 1, Len(seq))

\* previousText.split(' ').slice(-50).join(' ')
ContextText(previousText) ==
    JoinText(LastN(SplitSpace(previousText), ContextWords))

DigitSet == {"0", "1", "2", "3", "4", "5", "6", "7", "8", "9"}

\* lines[i].includes('-->'): a line with two times has the arrow between them.
IncludesArrow(line) ==
    \/ line.k = "ts"
    \/ \E n \in 1 .. Len(line.t) - 2 : SubSeq(line.t, n, n + 2) = <<"-", "-", ">">>

\* lines[i].match(/^WEBVTT/)
StartsWithHeader(line) ==
    line.k # "ts" /\ Len(line.t) >= Len(HeaderLine.t)
        /\ SubSeq(line.t, 1, Len(HeaderLine.t)) = HeaderLine.t

\* lines[i].match(/^\d\d:/)
StartsWithDigits(line) ==
    line.k # "ts" /\ Len(line.t) >= 3
        /\ line.t[1] \in DigitSet /\ line.t[2] \in DigitSet /\ line.t[3] = ":"

\* The test of extractTextFromVTT on a line: no arrow in it, not beginning
\* with WEBVTT, not empty when trimmed, not beginning with two digits and a colon.
IsSpoken(line) ==
    /\ ~IncludesArrow(line)
    /\ ~StartsWithHeader(line)
    /\ TrimText(line.t) # <<>>
    /\ ~StartsWithDigits(line)

\* text += ' ' + lines[i].trim() for every such line; return text.trim()
extractTextFromVTT(vtt) ==
    LET spoken == SelectSeq(vtt, IsSpoken)
    IN  TrimText(Flatten([n \in 1 .. Len(spoken) |-> <<" ">> \o TrimText(spoken[n].t)]))

\* JSON.parse(previousTranscription).text or extractTextFromVTT(previousTranscription),
\* previousTranscription being the last result stored.
PreviousText(fmt, ts) ==
    IF fmt = "json" THEN ts[Len(ts)].text ELSE extractTextFromVTT(ts[Len(ts)])

\* A non-empty string is truthy.  The empty string is the cue track with no
\* line, or with one line that has no character; the text of a structured
\* document is never empty.
Truthy(result) == result \notin {<<>>, <<BlankLine>>, <<TextLine(<<>>)>>}

\* segmentPrompt of segment i, given the results stored so far: 'if (i > 0 &&
\* previousTranscription)', previousTranscription being '' until a result is
\* stored and the last result stored after that.
SegmentPrompt(i, fmt, ts) ==
    IF i > 0 /\ ts # <<>> /\ Truthy(ts[Len(ts)])
    THEN BasePrompt \o <<" ", "Previous", " ", "context:", " ">>
           \o ContextText(PreviousText(fmt, ts))
    ELSE BasePrompt

\* Mutant: the call is issued without waiting for the one before it.
CanIssue_NoAwait(calling) == TRUE

\* 'await transcribeAudioSegment(...)': the loop goes on when the call has returned.
CanIssue(calling) == calling = {}

\* One turn of the loop over segments, up to the call: readFile(segment),
\* the prompt, transcribeAudioSegment(...) issued.
CallSegment ==
    /\ pc = "transcribe"
    /\ Len(transcriptions) < Len(segments)
    /\ CanIssue(inflight)
    /\ LET i == Len(transcriptions)
       IN  /\ \E b \in ClipSizes(ClipLen(segments[i + 1], duration),
                                  ClipRates(calls, segments, duration)) :
                 calls' = Append(calls, [seg |-> i, bytes |-> b,
                                         prompt |-> SegmentPrompt(i, format, transcriptions)])
           /\ inflight' = inflight \cup {i}
    /\ UNCHANGED <<pc, format, duration, currentTime, segments, transcriptions, output,
                   truth, size, files, written, cause, otherVars>>

\* The call returns what the service heard in the clip:
\* previousTranscription = transcription, transcriptions.push(transcription).
TranscribeSegment ==
    /\ pc = "transcribe"
    /\ \E j \in inflight :
          /\ inflight' = inflight \ {j}
          /\ \E r \in ServiceResults(format, ClipLen(segments[j + 1], duration)) :
                transcriptions' = Append(transcriptions, r)
    /\ UNCHANGED <<pc, format, duration, currentTime, segments, output,
                   truth, size, files, calls, written, cause, otherVars>>

\* return combineVTTTranscriptions(transcriptions)
CombineVTT ==
    /\ pc = "transcribe"
    /\ Len(transcriptions) = Len(segments)
    /\ format = "vtt"
    /\ output' = combineVTTTranscriptions(transcriptions)
    /\ pc' = "done"
    /\ UNCHANGED <<format, duration, currentTime, segments, transcriptions, truth, files, cause, runVars, otherVars>>

\* return combineJSONTranscriptions(transcriptions), or its TypeError.
CombineJSON ==
    /\ pc = "transcribe"
    /\ Len(transcriptions) = Len(segments)
    /\ format = "json"
    /\ IF JSONThrows(transcriptions)
       THEN pc' = "failed" /\ output' = output
       ELSE pc' = "done" /\ output' = combineJSONTranscriptions(transcriptions)
    /\ UNCHANGED <<format, duration, currentTime, segments, transcriptions, truth, files, runVars, otherVars>>
    /\ cause' = IF JSONThrows(transcriptions) THEN "combine" ELSE cause

Next ==
    \/ Probe
    \/ PushSegment
    \/ ExtractSegment
    \/ SplitDone
    \/ CallSegment
    \/ TranscribeSegment
    \/ CombineVTT
    \/ CombineJSON

Spec == Init /\ [][Next]_vars

\* ------------------------------------------ round trip with a faithful fake

\* The items of a continuous recording, on the source's own timeline: at the
\* start, inside the first overlap, right after the first cut, right after the
\* second clip's end, and inside the third clip.
GlobalCandidates ==
    << [start |-> 0,       end |-> 5000,    text |-> "a"],
       [start |-> 585000,  end |-> 590000,  text |-> "b"],
       [start |-> 600000,  end |-> 605000,  text |-> "c"],
       [start |-> 1185000, end |-> 1190000, text |-> "d"],
       [start |-> 1250000, end |-> 1255000, text |-> "e"] >>

RECURSIVE PickGlobal(_, _)
PickGlobal(S, n) ==
    IF n > Len(GlobalCandidates) THEN <<>>
    ELSE (IF n \in S THEN <<GlobalCandidates[n]>> ELSE <<>>) \o PickGlobal(S, n + 1)

Truths ==
    { PickGlobal(S, 1) :
        S \in { T \in SUBSET (1 .. Len(GlobalCandidates)) :
                  Cardinality(T) \in 1 .. MaxCues + 1 } }

InWindow(item, seg, dur) == seg.start <= item.start /\ item.end <= ClipEnd(seg, dur)

\* What a clip holds of the recording, in the clip's local time: the items
\* of the overlap are in both clips around the cut.
Resplit(items, seg, dur) ==
    LET inside == SelectSeq(items, LAMBDA it : InWindow(it, seg, dur))
    IN  [n \in 1 .. Len(inside) |->
           [inside[n] EXCEPT !.start = inside[n].start - seg.start,
                             !.end = inside[n].end - seg.start]]

InitRoundTrip ==
    /\ pc = "probe"
    /\ format \in {"vtt", "json"}
    /\ duration = 0
    /\ currentTime = 0
    /\ segments = <<>>
    /\ transcriptions = <<>>
    /\ output = NoOutput
    /\ size = MAX_FILE_SIZE + 1
    /\ files = {InputFile}
    /\ inflight = {}
    /\ calls = <<>>
    /\ written = FALSE
    /\ cause = "none"
    /\ OthersIdle
    /\ truth \in Truths

\* The fake service: the call returns exactly what the clip holds of the recording.
TranscribeFake ==
    /\ pc = "transcribe"
    /\ \E j \in inflight :
          /\ inflight' = inflight \ {j}
          /\ LET items == Resplit(truth, segments[j + 1], duration)
             IN  transcriptions' =
                   Append(transcriptions,
                          IF format = "vtt" THEN RenderVTT(items) ELSE RenderJSON(items))
    /\ UNCHANGED <<pc, format, duration, currentTime, segments, output,
                   truth, size, files, calls, written, cause, otherVars>>

NextRoundTrip ==
    \/ Probe
    \/ PushSegment
    \/ ExtractSegment
    \/ SplitDone
    \/ CallSegment
    \/ TranscribeFake
    \/ CombineVTT
    \/ CombineJSON

SpecRoundTrip == InitRoundTrip /\ [][NextRoundTrip]_vars

\* ----------------------------------------------- the run of transcribeAudio

\* Probed durations of a run: none (0) and the multiples of RunDurStep.
RunDurStep == 300000
MaxRunDurSteps == 5
RunDurations == { k * RunDurStep : k \in 0 .. MaxRunDurSteps }

\* The audio buffer is at the ceiling or one byte above it.
Sizes == {MAX_FILE_SIZE, MAX_FILE_SIZE + 1}

\* Mutant: the buffer is always sent as it is.
IsSmall_Always(bytes) == TRUE

\* audioBuffer.length <= MAX_FILE_SIZE
IsSmall(bytes) == bytes <= MAX_FILE_SIZE

\* A recognized text of n words: the items "1" .. "n", one a second.
SpokenItems(n) ==
    [k \in 1 .. n |-> [start |-> (k - 1) * 1000, end |-> k * 1000, text |-> ToString(k)]]

WordCounts == {0, 1, ContextWords, ContextWords + 1}

\* A cue whose timestamp line has no hours group ("00:05.000 --> 00:10.000").
NoHours(ts) == [ts EXCEPT !.hh = -1]
MalformedVTT ==
    << HeaderLine, BlankLine,
       TsLine(NoHours(formatVTTTimestamp(0)), NoHours(formatVTTTimestamp(5000))),
       TextLine(<<"x">>), BlankLine, BlankLine >>

\* A response that ends with its last cue's text, without a newline after it.
UnterminatedVTT ==
    << HeaderLine, BlankLine,
       TsLine(formatVTTTimestamp(0), formatVTTTimestamp(5000)), TextLine(<<"y">>) >>

\* A cue with a setting after its times and a clock time on the second line of
\* its text: "00:00:00.000 --> 00:00:05.000 align:start\nat\n10:30".
ClockVTT ==
    << HeaderLine, BlankLine,
       [TsLine(formatVTTTimestamp(0), formatVTTTimestamp(5000)) EXCEPT
           !.post = <<" ", "a", "l", "i", "g", "n", ":", "s", "t", "a", "r", "t">>],
       TextLine(<<"a", "t">>), TextLine(<<"1", "0", ":", "3", "0">>),
       BlankLine, BlankLine >>

\* An answer with an empty body: the empty string.
EmptyVTT == <<BlankLine>>

\* A 'vtt' response of n words: one cue of n seconds, a word on each line.
WordsVTT(n) ==
    IF n = 0 THEN RenderVTT(<<>>)
    ELSE << HeaderLine, BlankLine,
            TsLine(formatVTTTimestamp(0), formatVTTTimestamp(n * 1000)) >>
           \o [k \in 1 .. n |-> TextLine(DigitChars(k))]
           \o <<BlankLine, BlankLine>>

\* What transcribeAudioSegment can return in a run.
RunResults(fmt) ==
    IF fmt = "vtt"
    THEN { WordsVTT(n) : n \in WordCounts } \cup {MalformedVTT, UnterminatedVTT, ClockVTT, EmptyVTT}
    ELSE { RenderJSON(SpokenItems(n)) : n \in WordCounts }

InitRun ==
    /\ pc = "start"
    /\ format \in {"vtt", "json"}
    /\ size \in Sizes
    /\ duration = 0
    /\ currentTime = 0
    /\ segments = <<>>
    /\ transcriptions = <<>>
    /\ output = NoOutput
    /\ truth = <<>>
    /\ files = {}
    /\ inflight = {}
    /\ calls = <<>>
    /\ written = FALSE
    /\ cause = "none"
    /\ OthersIdle

\* if (audioBuffer.length <= MAX_FILE_SIZE) return await transcribeAudioSegment(...)
StartDirect ==
    /\ pc = "start"
    /\ IsSmall(size)
    /\ calls' = <<[seg |-> 0, bytes |-> size, prompt |-> BasePrompt]>>
    /\ inflight' = {0}
    /\ pc' = "direct"
    /\ UNCHANGED <<format, duration, currentTime, segments, transcriptions, output,
                   truth, size, files, written, cause, otherVars>>

\* The direct call returns: its result is the result of transcribeAudio.
DirectReturn ==
    /\ pc = "direct"
    /\ \E r \in RunResults(format) : output' = r
    /\ inflight' = {}
    /\ pc' = "done"
    /\ UNCHANGED <<format, duration, currentTime, segments, transcriptions,
                   truth, size, files, calls, written, cause, otherVars>>

\* The direct call throws.
DirectFail ==
    /\ pc = "direct"
    /\ inflight' = {}
    /\ pc' = "failed"
    /\ cause' = "transcribe"
    /\ UNCHANGED <<format, duration, currentTime, segments, transcriptions, output,
                   truth, size, files, calls, written, otherVars>>

\* splitAudioFile begins: writeFile(inputPath, audioBuffer).
StartSplit ==
    /\ pc = "start"
    /\ ~IsSmall(size)
    /\ files' = files \cup {InputFile}
    /\ pc' = "probe"
    /\ UNCHANGED <<format, duration, currentTime, segments, transcriptions, output,
                   truth, cause, runVars, otherVars>>

ProbeRun == ProbeOf(RunDurations)

\* ffprobe reports an error: rm(inputPath), reject(err).
ProbeFail ==
    /\ pc = "probe"
    /\ files' = files \ {InputFile}
    /\ pc' = "failed"
    /\ cause' = "probe"
    /\ UNCHANGED <<format, duration, currentTime, segments, transcriptions, output,
                   truth, runVars, otherVars>>

\* ffmpeg reports 'error', with or without a part of the clip written:
\* rejectSegment(err) makes the await inside the probe callback throw; neither
\* resolve nor reject is called.
ExtractFail ==
    /\ pc = "extract"
    /\ \E partial \in BOOLEAN :
          files' = IF partial THEN files \cup {SegmentFile(Len(segments) - 1)} ELSE files
    /\ pc' = "stuck"
    /\ cause' = "extract"
    /\ UNCHANGED <<format, duration, currentTime, segments, transcriptions, output,
                   truth, runVars, otherVars>>

\* Mutant: the error is caught and the segment is tried again.
OnCallError_Retry == "transcribe"

\* transcribeAudioSegment rethrows and transcribeAudio does not catch.
OnCallError == "failed"

\* The call returns: previousTranscription = transcription, transcriptions.push(it).
CallReturn ==
    /\ pc = "transcribe"
    /\ \E j \in inflight :
          /\ inflight' = inflight \ {j}
          /\ \E r \in RunResults(format) : transcriptions' = Append(transcriptions, r)
    /\ UNCHANGED <<pc, format, duration, currentTime, segments, output,
                   truth, size, files, calls, written, cause, otherVars>>

\* The call throws.
CallFail ==
    /\ pc = "transcribe"
    /\ \E j \in inflight : inflight' = inflight \ {j}
    /\ pc' = OnCallError
    /\ cause' = "transcribe"
    /\ UNCHANGED <<format, duration, currentTime, segments, transcriptions, output,
                   truth, size, files, calls, written, otherVars>>

\* processFiles: 'if (result) await safeWriteFile(outputPath, result, encoding)'.
FinishFile ==
    /\ pc = "done"
    /\ written' = Truthy(output)
    /\ pc' = "exit"
    /\ UNCHANGED <<format, duration, currentTime, segments, transcriptions, output,
                   truth, size, files, inflight, calls, cause, otherVars>>

NextRun ==
    \/ StartDirect
    \/ DirectReturn
    \/ DirectFail
    \/ StartSplit
    \/ ProbeRun
    \/ ProbeFail
    \/ PushSegment
    \/ ExtractSegment
    \/ ExtractFail
    \/ SplitDone
    \/ CallSegment
    \/ CallReturn
    \/ CallFail
    \/ CombineVTT
    \/ CombineJSON
    \/ FinishFile

SpecRun == InitRun /\ [][NextRun]_vars

\* ------------------------------------------------- the codec on its own

\* Digit groups of well-formed timestamps HH:MM:SS.mmm with hours below 100:
\* the least, the next and the greatest value of each group.
StampHours == {0, 1, 99}
StampMinutes == {0, 1, 59}
StampSeconds == {0, 1, 59}
StampMillis == {0, 1, 999}
Stamps == [hh : StampHours, mm : StampMinutes, ss : StampSeconds, mmm : StampMillis]

\* Whole numbers of milliseconds below 100 hours: 0, the values around each
\* unit, the greatest one, and one the code's arithmetic does not represent exactly.
StampValues ==
    {0, 1, 999, 1000, 1001, 59999, 60000, 60001, 264732,
     3599999, 3600000, 3600001, 359999999}

\* The pipeline is not running.
PipelineIdle ==
    /\ pc = "idle"
    /\ format = "vtt"
    /\ duration = 0
    /\ currentTime = 0
    /\ segments = <<>>
    /\ transcriptions = <<>>
    /\ output = NoOutput
    /\ truth = <<>>
    /\ size = 0
    /\ files = {}
    /\ inflight = {}
    /\ calls = <<>>
    /\ written = FALSE
    /\ cause = "none"

InitCodec ==
    /\ PipelineIdle
    /\ chapters = <<>>
    /\ chaptersWithTimestamps = <<>>
    /\ codec \in { [op |-> "text", arg |-> s, mid |-> 0, res |-> 0] : s \in Stamps }
                   \cup { [op |-> "value", arg |-> v, mid |-> 0, res |-> 0] : v \in StampValues }

\* formatVTTTimestamp(parseVTTTimestamp(s))
ParseThenFormat ==
    /\ codec.op = "text"
    /\ codec' = [op  |-> "formatted", arg |-> codec.arg,
                 mid |-> parseVTTTimestamp(codec.arg),
                 res |-> formatVTTTimestamp(parseVTTTimestamp(codec.arg))]
    /\ UNCHANGED <<pipelineVars, chapters, chaptersWithTimestamps>>

\* parseVTTTimestamp(formatVTTTimestamp(v))
FormatThenParse ==
    /\ codec.op = "value"
    /\ codec' = [op  |-> "parsed", arg |-> codec.arg,
                 mid |-> formatVTTTimestamp(codec.arg),
                 res |-> parseVTTTimestamp(formatVTTTimestamp(codec.arg))]
    /\ UNCHANGED <<pipelineVars, chapters, chaptersWithTimestamps>>

NextCodec ==
    \/ ParseThenFormat
    \/ FormatThenParse

SpecCodec == InitCodec /\ [][NextCodec]_vars

\* ------------------------------------------------ transcript-chapters.ts

\* At most MaxChapters chapters come back from splitTranscriptIntoChapters.
MaxChapters == 4

\* previousStartTime + 60
MinimumIncrement == 60

\* The chapter lists: chapters 1 .. n with their titles, no start time yet.
ChapterLists == { [n \in 1 .. k |-> [title |-> n]] : k \in 0 .. MaxChapters }

\* What generateObject can give for startTime: a text with an h:m:s group, a
\* text with a number but no such group, a text without a digit, the empty
\* text, or an error thrown.
Answers ==
    { [kind |-> "hms", h |-> t[1], m |-> t[2], s |-> t[3], n |-> 0] :
        t \in { <<0, 0, 0>>, <<0, 0, 30>>, <<0, 0, 59>>, <<0, 1, 0>>, <<0, 1, 1>>,
                <<0, 0, 90>>, <<0, 2, 0>>, <<1, 0, 0>> } }
      \cup { [kind |-> "number", h |-> 0, m |-> 0, s |-> 0, n |-> v] : v \in {45, 120} }
      \cup { [kind |-> k, h |-> 0, m |-> 0, s |-> 0, n |-> 0] : k \in {"words", "empty", "error"} }

\* A number, or undefined.
Defined(v) == [defined |-> TRUE, value |-> v]
Undefined == [defined |-> FALSE, value |-> 0]

\* parseTimeToSeconds: hours * 3600 + minutes * 60 + seconds of the first
\* (\d+):(\d+):(\d+) group, else the first number of the text, else undefined.
parseTimeToSeconds(timeStr) ==
    IF timeStr.kind = "empty" THEN Undefined
    ELSE IF timeStr.kind = "hms"
    THEN Defined(timeStr.h * 3600 + timeStr.m * 60 + timeStr.s)
    ELSE IF timeStr.kind = "number" THEN Defined(timeStr.n)
    ELSE Undefined

\* Mutant: a timestamp equal to the previous chapter's start is accepted.
Rejected_AllowEqual(startTime, previousStartTime) ==
    ~startTime.defined \/ startTime.value = 0 \/ startTime.value < previousStartTime

\* !startTime || startTime <= previousStartTime
Rejected(startTime, previousStartTime) ==
    ~startTime.defined \/ startTime.value = 0 \/ startTime.value <= previousStartTime

\* findChapterTimestamps: previous is the list of the previous chapter, empty
\* for the first chapter; answer is what the model gave.
findChapterTimestamps(chapter, previous, answer) ==
    IF previous = <<>> THEN [title |-> chapter.title, startTime |-> 0]
    ELSE LET previousStartTime == previous[1].startTime
             minimumStartTime == previousStartTime + MinimumIncrement
             startTime == parseTimeToSeconds(answer)
         IN  IF answer.kind = "error"
             THEN [title |-> chapter.title, startTime |-> minimumStartTime]
             ELSE IF Rejected(startTime, previousStartTime)
             THEN [title |-> chapter.title, startTime |-> minimumStartTime]
             ELSE [title |-> chapter.title, startTime |-> startTime.value]

InitChapters ==
    /\ PipelineIdle
    /\ codec = NoCodec
    /\ chapters \in ChapterLists
    /\ chaptersWithTimestamps = <<>>

\* One turn of the loop of processTranscriptChapters.
FindTimestamp ==
    /\ Len(chaptersWithTimestamps) < Len(chapters)
    /\ LET i == Len(chaptersWithTimestamps)
           previous == IF i > 0 THEN <<chaptersWithTimestamps[i]>> ELSE <<>>
       IN  \E answer \in Answers :
              chaptersWithTimestamps' =
                  Append(chaptersWithTimestamps,
                         findChapterTimestamps(chapters[i + 1], previous, answer))
    /\ UNCHANGED <<pipelineVars, codec, chapters>>

NextChapters == FindTimestamp

SpecChapters == InitChapters /\ [][NextChapters]_vars

\* ------------------------------------------------------ reading the results

Stitched == pc = "done"
SplitOver == pc \in {"transcribe", "done", "failed"}

\* The cues of a cue-track document: each timestamp line with the text below it.
ParseCues(lines) ==
    LET at == { n \in 1 .. Len(lines) : lines[n].k = "ts" }
        cue(n) == [start |-> parseVTTTimestamp(lines[n].s),
                   end   |-> parseVTTTimestamp(lines[n].e),
                   text  |-> IF n < Len(lines) /\ lines[n + 1].k = "text"
                             THEN Spell(lines[n + 1].t) ELSE ""]
        all == [n \in 1 .. Len(lines) |-> IF n \in at THEN <<cue(n)>> ELSE <<>>]
    IN  Flatten(all)

\* Words and segment entries as plain timed items.
WordItems(ws) ==
    [n \in 1 .. Len(ws) |-> [start |-> ws[n].start, end |-> ws[n].end, text |-> ws[n].word]]
EntryItems(es) ==
    [n \in 1 .. Len(es) |-> [start |-> es[n].start, end |-> es[n].end, text |-> es[n].text[1]]]

Texts(items) == [n \in 1 .. Len(items) |-> items[n].text]

\* Adjacent items are in order and do not overlap beyond the tolerance.
Monotonic(items) ==
    \A n \in 1 .. Len(items) - 1 :
        /\ items[n].start <= items[n + 1].start
        /\ items[n].end <= items[n + 1].start + Epsilon

\* The items of segment i (from 0) that lie outside the overlap region:
\* all of segment 0, and from a later segment those starting at or after
\* the overlap length in the clip's own time.
OutsideOverlap(items, i) ==
    SelectSeq(items, LAMBDA it : i = 0 \/ it.start >= SEGMENT_OVERLAP)

Shifted(items, off) ==
    [n \in 1 .. Len(items) |->
       [items[n] EXCEPT !.start = items[n].start + off, !.end = items[n].end + off]]

\* The measured end of a segment result: the end of its last item.
MeasuredEnd(items) == IF items = <<>> THEN 0 ELSE items[Len(items)].end

\* ------------------------------------------------------------------ claims

\* C1: the extracted segment intervals [start, start + length) cover
\* [0, duration) without a gap.  The uncovered part of [0, duration), if any,
\* begins at 0 or at the end of some interval, so these are the instants checked.
C1_NoGap ==
    (SplitOver /\ duration > 0) =>
        \A t \in {0} \cup { segments[n].start + segments[n].length : n \in 1 .. Len(segments) } :
            t < duration =>
                \E n \in 1 .. Len(segments) :
                    segments[n].start <= t /\ t < segments[n].start + segments[n].length

\* C2: every two consecutive extracted segments overlap by exactly
\* SEGMENT_OVERLAP: the end of segment i is that much after the start of i+1.
C2_ExactOverlap ==
    SplitOver =>
        \A n \in 1 .. Len(segments) - 1 :
            (segments[n].start + segments[n].length) - segments[n + 1].start = SEGMENT_OVERLAP

\* C3: the cues of a stitched cue track are ordered in time: for every
\* adjacent pair start[i] <= start[i+1] and end[i] <= start[i+1] + epsilon.
C3_VTTMonotonic ==
    (Stitched /\ format = "vtt") => Monotonic(ParseCues(output))

\* C3 witness: three segments stitched, cues of all three in the output, and
\* a cue of one segment ending exactly where the next segment's first kept cue starts.
C3_Witness ==
    /\ Stitched /\ format = "vtt" /\ Len(transcriptions) = 3
    /\ Texts(ParseCues(output)) = <<"d", "c", "d", "c">>
    /\ ParseCues(output)[1].end = ParseCues(output)[2].start

\* C4: the words and the segment entries of a stitched structured transcript
\* are each ordered in time, for any number of segments.
C4_JSONMonotonic ==
    (Stitched /\ format = "json") =>
        Monotonic(WordItems(output.words)) /\ Monotonic(EntryItems(output.segments))

\* C5: the stitched cue track holds every cue of segment 0 and, of a later
\* segment, exactly the cues whose start is at or after the overlap threshold
\* (a cue exactly at the threshold is kept), in order, and no other cue is missing.
C5_KeptCues ==
    (Stitched /\ format = "vtt") =>
        Texts(ParseCues(output)) =
            Flatten([n \in 1 .. Len(transcriptions) |->
                       Texts(OutsideOverlap(ParseCues(transcriptions[n]), n - 1))])

\* C5 witness: a later segment has a cue just below the threshold and a cue
\* exactly at it; the first is dropped and the second is in the output.
C5_Witness ==
    /\ Stitched /\ format = "vtt" /\ Len(transcriptions) = 2
    /\ Texts(ParseCues(transcriptions[1])) = <<"a">>
    /\ Texts(ParseCues(transcriptions[2])) = <<"b", "c">>
    /\ Texts(ParseCues(output)) = <<"a", "c">>

\* C6: in the structured merge no word and no segment entry of a segment
\* i > 0 that starts inside the overlap region is in the combined output.
C6_JSONNoOverlapItems ==
    (Stitched /\ format = "json") =>
        /\ Texts(WordItems(output.words)) =
             Flatten([n \in 1 .. Len(transcriptions) |->
                        Texts(OutsideOverlap(WordItems(transcriptions[n].words), n - 1))])
        /\ Texts(EntryItems(output.segments)) =
             Flatten([n \in 1 .. Len(transcriptions) |->
                        Texts(OutsideOverlap(EntryItems(transcriptions[n].segments), n - 1))])

\* C7: stitching a single segment result returns it unchanged: the same cues
\* for a cue track; the same text, words and segments for a structured result.
C7_SingleIdentity ==
    (Stitched /\ Len(transcriptions) = 1) =>
        IF format = "vtt"
        THEN ParseCues(output) = ParseCues(transcriptions[1])
        ELSE /\ output.text = transcriptions[1].text
             /\ output.words = transcriptions[1].words
             /\ output.segments = transcriptions[1].segments

\* C8: stitching the clips' results of a faithful transcription of one
\* continuous recording gives back the recording's items: each once, with its
\* text and its time on the source's timeline.
C8_RoundTrip ==
    Stitched =>
        IF format = "vtt"
        THEN ParseCues(output) = truth
        ELSE /\ WordItems(output.words) = truth
             /\ EntryItems(output.segments) = truth

\* C9: the combined text of the structured merge is the texts of the segment
\* entries in the output joined by single spaces.
C9_TextFromEntries ==
    (Stitched /\ format = "json") =>
        output.text = JoinText([n \in 1 .. Len(output.segments) |-> output.segments[n].text])

\* C10 as stated: for both shapes the offset applied to segment i+1 is the
\* measured end of the last item of segment i.
C10_MeasuredOffsetBoth ==
    (Stitched /\ \A n \in 1 .. Len(transcriptions) :
                    (IF format = "vtt" THEN ParseCues(transcriptions[n])
                     ELSE transcriptions[n].segments) # <<>>) =>
        IF format = "vtt"
        THEN ParseCues(output) =
               Flatten([n \in 1 .. Len(transcriptions) |->
                   Shifted(OutsideOverlap(ParseCues(transcriptions[n]), n - 1),
                           IF n = 1 THEN 0
                           ELSE MeasuredEnd(ParseCues(transcriptions[n - 1])))])
        ELSE output.segments =
               Flatten([n \in 1 .. Len(transcriptions) |->
                   Shifted(transcriptions[n].segments,
                           IF n = 1 THEN 0
                           ELSE MeasuredEnd(transcriptions[n - 1].segments))])

\* C10 amended: in the structured merge the offset applied to segment i+1 is
\* the measured end of the last segment entry of segment i; in the cue-track
\* merge it is (i+1) * (SEGMENT_DURATION - SEGMENT_OVERLAP), the nominal
\* stride, whatever the measured ends are.
C10_OffsetPerShape ==
    Stitched =>
        IF format = "vtt"
        THEN ParseCues(output) =
               Flatten([n \in 1 .. Len(transcriptions) |->
                   Shifted(OutsideOverlap(ParseCues(transcriptions[n]), n - 1),
                           (n - 1) * (SEGMENT_DURATION - SEGMENT_OVERLAP))])
        ELSE /\ output.segments =
                  Flatten([n \in 1 .. Len(transcriptions) |->
                      Shifted(transcriptions[n].segments,
                              IF n = 1 THEN 0
                              ELSE MeasuredEnd(transcriptions[n - 1].segments))])
             /\ output.words =
                  Flatten([n \in 1 .. Len(transcriptions) |->
                      Shifted(transcriptions[n].words,
                              IF n = 1 THEN 0
                              ELSE MeasuredEnd(transcriptions[n - 1].segments))])

\* C10 witness: a cue track of three segments, the first two ending well short
\* of the nominal stride, with a kept cue of the third segment in the output.
C10_Witness ==
    /\ Stitched /\ format = "vtt" /\ Len(transcriptions) = 3
    /\ MeasuredEnd(ParseCues(transcriptions[1])) = 5000
    /\ MeasuredEnd(ParseCues(transcriptions[2])) = 25000
    /\ Texts(ParseCues(transcriptions[3])) = <<"c">>
    /\ ParseCues(output)[Len(ParseCues(output))].start =
          2 * (SEGMENT_DURATION - SEGMENT_OVERLAP) + SEGMENT_OVERLAP

\* ------------------------------------------------- the claims about the run

\* The run took the split path and has come to an end.
SplitRun == size > MAX_FILE_SIZE
Completed == pc \in {"done", "exit"}
RunOver == pc \in {"exit", "failed", "stuck"}

\* The recognized text of a stored result: the text member, or the words on
\* the text lines of the cue track with a space between them.
Recognized(fmt, doc) ==
    IF fmt = "json" THEN doc.text
    ELSE LET spoken == SelectSeq(doc, LAMBDA line : line.k = "text")
         IN  JoinText([n \in 1 .. Len(spoken) |-> spoken[n].t])

WordCount(text) ==
    IF text = <<>> THEN 0 ELSE Cardinality({ n \in 1 .. Len(text) : text[n] = " " }) + 1

\* part is the last words of whole: a suffix that starts at a word.
WordSuffix(part, whole) ==
    /\ Len(part) <= Len(whole)
    /\ part = SubSeq(whole, Len(whole) - Len(part) + 1, Len(whole))
    /\ (part # <<>> /\ Len(part) < Len(whole)) => whole[Len(whole) - Len(part)] = " "

HintLead == <<" ", "Previous", " ", "context:", " ">>
HintOf(prompt) == SubSeq(prompt, Len(BasePrompt) + Len(HintLead) + 1, Len(prompt))

\* C11 as stated: the extraction of segment i+1 does not begin before
\* segment i has been transcribed and merged.
C11_ExtractAfterMerge ==
    SplitRun => \A n \in 2 .. Len(segments) : Len(transcriptions) >= n - 1

\* C11 amended: every segment is extracted before the first transcription
\* call is issued, and the results are merged once, after the call for the
\* last segment has returned.
C11_ExtractThenTranscribe ==
    SplitRun =>
        /\ calls # <<>> => (pc \notin {"probe", "split", "extract"} /\ currentTime >= duration)
        /\ Completed => (Len(transcriptions) = Len(segments) /\ inflight = {})

\* C11 witness: the first call is in flight with a second segment extracted.
C11_Witness ==
    SplitRun /\ Len(calls) = 1 /\ inflight = {0} /\ Len(segments) >= 2

\* C12: at most one transcription call is in flight, calls are issued in
\* increasing segment index, and a call is issued only after the call for
\* the segment before it has returned its result.
C12_OneCallAtATime ==
    /\ Cardinality(inflight) <= 1
    /\ \A k \in 1 .. Len(calls) : calls[k].seg = k - 1
    /\ \A j \in inflight : j = Len(calls) - 1 /\ (SplitRun => Len(transcriptions) = j)

\* C12 witness: the call for segment 1 is in flight, that of segment 0 returned.
C12_Witness ==
    SplitRun /\ inflight = {1} /\ Len(transcriptions) = 1 /\ Len(calls) = 2

\* C13: the prompt of segment 0 is the base prompt alone; the prompt of a
\* segment i > 0 is the base prompt followed by a hint that is a suffix of at
\* most 50 space-separated words of the recognized text of segment i-1, the
\* recognized text of a cue track being the text lines of its cues; after a
\* segment with no recognized text the hint may be left out.
C13_ContextHint ==
    \A k \in 1 .. Len(calls) :
        IF calls[k].seg = 0 THEN calls[k].prompt = BasePrompt
        ELSE \/ /\ calls[k].prompt = BasePrompt
                /\ Recognized(format, transcriptions[k - 1]) = <<>>
             \/ /\ Len(calls[k].prompt) >= Len(BasePrompt) + Len(HintLead)
                /\ SubSeq(calls[k].prompt, 1, Len(BasePrompt) + Len(HintLead))
                      = BasePrompt \o HintLead
                /\ WordSuffix(HintOf(calls[k].prompt),
                              Recognized(format, transcriptions[k - 1]))
                /\ WordCount(HintOf(calls[k].prompt)) <= ContextWords

\* C14: if the transcription of a segment fails, transcribeAudio returns no
\* combined result and no output file is written.
C14_NoPartialOutput ==
    cause = "transcribe" => (output = NoOutput /\ ~written)

\* C14 witness: the call for the third segment failed after two succeeded.
C14_Witness ==
    pc = "failed" /\ cause = "transcribe" /\ Len(transcriptions) = 2 /\ Len(calls) = 3

\* A block of the cue track whose timestamp line does not match the pattern.
HasBadBlock(doc) == \E n \in 1 .. Len(doc) : doc[n].k = "ts" /\ ~MatchesTs(doc[n])

\* C15: a segment result with a block whose timestamp line does not match
\* HH:MM:SS.mmm --> HH:MM:SS.mmm is fatal for the run: no run completes with
\* such a result among its segments.
C15_MalformedIsFatal ==
    (SplitRun /\ Completed /\ format = "vtt") =>
        \A n \in 1 .. Len(transcriptions) : ~HasBadBlock(transcriptions[n])

\* C16 as stated: a run fails on a transcription failure only after the
\* failed segment has been tried again.
C16_RetriedBeforeFailing ==
    (pc = "failed" /\ cause = "transcribe") =>
        \E j, k \in 1 .. Len(calls) : j # k /\ calls[j].seg = calls[k].seg

\* C16 amended: a segment is attempted once; the first failure of a call
\* fails the run at once, with no further call.
C16_SingleAttempt ==
    /\ \A j, k \in 1 .. Len(calls) : calls[j].seg = calls[k].seg => j = k
    /\ cause = "transcribe" => (pc = "failed" /\ inflight = {})

\* C16 witness: the call for the second segment failed on its only attempt.
C16_Witness ==
    pc = "failed" /\ cause = "transcribe" /\ SplitRun /\ Len(calls) = 2

\* C17: when the run is over no temporary clip and no temporary input copy
\* remains.
C17_NoTempLeft ==
    RunOver => files = {}

\* C18: every clip passed to transcribeAudioSegment is no larger than
\* MAX_FILE_SIZE, on the direct path and for every extracted segment.
C18_ClipFits ==
    \A k \in 1 .. Len(calls) : calls[k].bytes <= MAX_FILE_SIZE

\* C18 witness: a full-length clip at the highest bit rate has been sent.
C18_Witness ==
    /\ SplitRun
    /\ \E k \in 1 .. Len(calls) : \E r \in Mp3BytesPerMs :
          /\ \A q \in Mp3BytesPerMs : q <= r
          /\ calls[k].bytes = SEGMENT_DURATION * r

\* C19: when the probe yields the duration 0 the run does not complete.
C19_ZeroIsUnknown ==
    (SplitRun /\ Completed) => duration # 0

\* C20: for a duration of 1500 s the segmenter yields the descriptors
\* (0, 600), (580, 600), (1160, 340), in seconds.
C20_Descriptors ==
    (SplitRun /\ duration = 1500000 /\ pc = "transcribe") =>
        [n \in 1 .. Len(segments) |-> <<segments[n].start, ClipLen(segments[n], duration)>>]
            = << <<0, 600000>>, <<580000, 600000>>, <<1160000, 340000>> >>

\* C21: a stitched result that violates the ordering or overlap invariant is
\* not returned: whatever transcribeAudio returns has its items in order,
\* without overlap beyond the tolerance.
C21_ViolationSurfaced ==
    Stitched =>
        IF format = "vtt" THEN Monotonic(ParseCues(output))
        ELSE Monotonic(WordItems(output.words)) /\ Monotonic(EntryItems(output.segments))

\* The reference Segmenter: start(i) = max(0, i * segmentLength - overlap),
\* segment i exists exactly when start(i) < totalDuration, and a length is
\* clipped so that the end does not exceed totalDuration.
RefStart(i) == Max(0, i * SEGMENT_DURATION - SEGMENT_OVERLAP)
RefCount(total) ==
    Cardinality({ i \in 0 .. (total \div SEGMENT_DURATION) + 1 : RefStart(i) < total })
RefSegments(total) ==
    [n \in 1 .. RefCount(total) |->
        <<RefStart(n - 1), Min(SEGMENT_DURATION, total - RefStart(n - 1))>>]

\* C22: for every duration above 0 the (start, length) pairs that
\* splitAudioFile extracts are those of the reference Segmenter.
C22_ReferenceSegmenter ==
    (SplitOver /\ duration > 0) =>
        [n \in 1 .. Len(segments) |-> <<segments[n].start, ClipLen(segments[n], duration)>>]
            = RefSegments(duration)

\* C23: once the call for segment i has failed, the calls issued are those
\* for the segments 0 .. i and no other, and transcribeAudio has failed
\* without a result.
C23_NoCallAfterFailure ==
    cause = "transcribe" =>
        /\ pc = "failed" /\ output = NoOutput
        /\ Len(calls) = Len(transcriptions) + 1
        /\ calls[Len(calls)].seg = Len(transcriptions)

\* C23 witness: the call for segment 0 of three segments failed.
C23_Witness ==
    /\ SplitRun /\ pc = "failed" /\ cause = "transcribe"
    /\ Len(segments) = 3 /\ Len(calls) = 1

\* C24: the offset the cue-track merge adds to segment i is the start time
\* at which segment i was extracted: the output is the kept cues of each
\* segment moved by that segment's start.
C24_OffsetIsExtractionStart ==
    (Stitched /\ format = "vtt") =>
        ParseCues(output) =
            Flatten([n \in 1 .. Len(transcriptions) |->
                Shifted(OutsideOverlap(ParseCues(transcriptions[n]), n - 1),
                        segments[n].start)])

\* C25: splitAudioFile settles in every case: when the extraction of a
\* segment has reported an error, the promise is rejected with it.
C25_SplitSettles ==
    cause = "extract" => pc = "failed"

\* C26: combineJSONTranscriptions completes with a result for every list of
\* well-formed segment results, one with an empty segments list included.
C26_JSONMergeCompletes ==
    (format = "json" /\ Len(transcriptions) = Len(segments)
        /\ pc \notin {"probe", "split", "extract", "transcribe"}) => pc = "done"

\* The cues of a document that have a valid timestamp line and, in a segment
\* after the first, start at or after the overlap threshold.
ValidCues(doc, i) ==
    OutsideOverlap(
        ParseCues(SelectSeq(doc, LAMBDA line : line.k # "ts" \/ MatchesTs(line))), i)

\* C27: the combined cue track holds every cue block of every segment that
\* has a valid timestamp line and passes the overlap threshold, whether or
\* not the segment ends with a blank line, and exactly one header line, its
\* first line.
C27_EveryValidCueKept ==
    (SplitRun /\ Completed /\ format = "vtt" /\ transcriptions # <<>>) =>
        /\ Texts(ParseCues(output)) =
              Flatten([n \in 1 .. Len(transcriptions) |->
                         Texts(ValidCues(transcriptions[n], n - 1))])
        /\ output # <<>> /\ output[1] = HeaderLine
        /\ Cardinality({ n \in 1 .. Len(output) : output[n].k = "header" }) = 1

\* C28: the codec round-trips at millisecond resolution: formatting the
\* parsed value of a well-formed timestamp gives the timestamp back, parsing
\* the formatted value of a number of milliseconds gives the number back,
\* and the seconds group of a formatted timestamp is below 60.
C28_CodecRoundTrip ==
    /\ codec.op = "formatted" => (codec.res = codec.arg /\ codec.res.ss < 60)
    /\ codec.op = "parsed" => (codec.res = codec.arg /\ codec.mid.ss < 60)

\* C28 witness: the greatest timestamp, 99:59:59.999, has gone through both.
C28_Witness ==
    /\ codec.op = "formatted"
    /\ codec.arg = [hh |-> 99, mm |-> 59, ss |-> 59, mmm |-> 999]
    /\ codec.mid = 359999999

\* C29: the chapters processTranscriptChapters has found have strictly
\* increasing start times in chapter order, the first of them 0.
C29_ChaptersIncrease ==
    /\ chaptersWithTimestamps # <<>> => chaptersWithTimestamps[1].startTime = 0
    /\ \A n \in 1 .. Len(chaptersWithTimestamps) - 1 :
          chaptersWithTimestamps[n].startTime < chaptersWithTimestamps[n + 1].startTime

\* C29 witness: every chapter has its time; the second took the model's
\* answer of 30 s and the third the fallback after it.
C29_Witness ==
    /\ Len(chaptersWithTimestamps) >= 3
    /\ Len(chaptersWithTimestamps) = Len(chapters)
    /\ chaptersWithTimestamps[2].startTime = 30
    /\ chaptersWithTimestamps[3].startTime = 30 + MinimumIncrement

\* C30: every chapter after the first starts at least 60 seconds after the
\* start of the chapter before it.
C30_MinimumIncrement ==
    \A n \in 1 .. Len(chaptersWithTimestamps) - 1 :
        chaptersWithTimestamps[n + 1].startTime
            >= chaptersWithTimestamps[n].startTime + MinimumIncrement

====
